---- MODULE Spec2Model ----
(***************************************************************************)
(* Rule-evaluation and cooldown-state engine of weather_notifier.py.       *)
(*                                                                         *)
(* Time is counted in ticks (TicksPerDay ticks to a calendar day) on a     *)
(* reduced calendar of DaysPerMonth days per month and 12 months per year. *)
(* Optional values (Python None / absent dict key) are sets: {} is None,   *)
(* {v} is the value v.  A Python dict is a function whose DOMAIN is the    *)
(* set of keys present.                                                    *)
(***************************************************************************)
EXTENDS Integers, Sequences, FiniteSets, TLC

(***************************************************************************)
(* Bounds of the model                                                     *)
(***************************************************************************)
TicksPerDay == 2
DaysPerMonth == 2
MaxRuns == 2
MaxPeriods == 3
MaxForecast == 5

(***************************************************************************)
(* Program constants (config.py defaults)                                  *)
(***************************************************************************)
RAINFALL_THRESHOLD_INCHES == 25     \* hundredths of an inch (0.25)
TEMP_DROP_THRESHOLD_F == 20
FREEZE_THRESHOLD_F == 32
HEAT_WAVE_THRESHOLD_F == 95
HEAT_WAVE_CONSECUTIVE_DAYS == 3
SNOW_CHANCE_THRESHOLD_PERCENT == 30
SHOULDER_FREEZE_THRESHOLD_F == 33
TEMP_DROP_COOLDOWN_DAYS == 5
HEAT_WAVE_COOLDOWN_DAYS == 7
SNOW_COOLDOWN_DAYS == 3
FIRST_FREEZE_SEASON_START == 10
FIRST_FREEZE_SEASON_END == 12
SHOULDER_FREEZE_MONTHS == {3, 11}

(***************************************************************************)
(* Optional values                                                         *)
(***************************************************************************)
None == {}

Some(v) == {v}

The(o) == CHOOSE v \in o : TRUE

Min(a, b) == IF a < b THEN a ELSE b

(***************************************************************************)
(* datetime: now(), .year, .month, .date(), isoformat(), fromisoformat(),  *)
(* timedelta(days=n)                                                       *)
(***************************************************************************)
BaseYear == 2026

TicksPerMonth == TicksPerDay * DaysPerMonth

TicksPerYear == 12 * TicksPerMonth

YearOf(t) == BaseYear + (t \div TicksPerYear)

MonthOf(t) == ((t % TicksPerYear) \div TicksPerMonth) + 1

DayOfMonth(t) == ((t % TicksPerMonth) \div TicksPerDay) + 1

TimeOfDay(t) == t % TicksPerDay

\* datetime.date(): the calendar date as (year, month, day)
DateOf(t) == <<YearOf(t), MonthOf(t), DayOfMonth(t)>>

\* datetime.isoformat(): "YYYY-MM-DDTHH:MM:SS" as its four fields
isoformat(t) ==
    [y |-> YearOf(t), m |-> MonthOf(t), d |-> DayOfMonth(t), hms |-> TimeOfDay(t)]

\* datetime.fromisoformat(): parse the fields back to a point in time
fromisoformat(s) ==
    (s.y - BaseYear) * TicksPerYear + (s.m - 1) * TicksPerMonth
        + (s.d - 1) * TicksPerDay + s.hms

\* datetime.fromisoformat() raises ValueError on a string that is no date
fromisoformat_raises(s) ==
    ~(s.m \in 1..12 /\ s.d \in 1..DaysPerMonth /\ s.hms \in 0..(TicksPerDay - 1))

timedelta(days) == days * TicksPerDay

(***************************************************************************)
(* Cooldown store                                                          *)
(***************************************************************************)
CooldownKeys ==
    {"last_temp_drop_alert", "last_heat_wave_alert", "last_snow_alert",
     "first_freeze_alert_year", "last_shoulder_freeze_alert"}

EmptyDoc == [k \in {} |-> None]

\* the backing file before its first write
MissingFile == [kind |-> "missing", content |-> EmptyDoc]

\* dict.get(key): None when the key is absent
Get(data, key) == IF key \in DOMAIN data THEN Some(data[key]) ELSE None

\* variant: the assignment starts from an empty dict
PutAlone(data, key, value) == [k \in {key} |-> value]

\* data[key] = value
Put(data, key, value) ==
    [k \in (DOMAIN data) \cup {key} |-> IF k = key THEN value ELSE data[k]]

\* get_cooldown_data(): {} when the file is missing or does not parse.  When the
\* file holds a JSON document that is not an object, json.load returns that
\* value (a list) unchanged: loaded_type tells the Python type of the result,
\* get_cooldown_data its key/value pairs (none for a list).
get_cooldown_data(f) == IF f.kind = "object" THEN f.content ELSE EmptyDoc

\* type(get_cooldown_data())
loaded_type(f) == IF f.kind = "non_object" THEN "list" ELSE "dict"

\* save_cooldown_data(data): the file now holds the dumped document
save_cooldown_data(data) == [kind |-> "object", content |-> data]

(***************************************************************************)
(* The backing file as JSON text.  A text is a sequence of tokens: [p] a   *)
(* punctuation mark, [k] an object key, [s] a string value, [n] a number.  *)
(* A Python value is [type, data]: a dict with its key/value pairs or a    *)
(* list (data is unused for a list).                                       *)
(***************************************************************************)
PyDict(data) == [type |-> "dict", data |-> data]

PyList == [type |-> "list", data |-> EmptyDoc]

\* the order in which the keys of a record are written
KeyOrder ==
    <<"last_temp_drop_alert", "first_freeze_alert_year", "last_heat_wave_alert",
      "last_snow_alert", "last_shoulder_freeze_alert">>

\* the year is a JSON number, every other value a JSON string
ValueToken(key, v) == IF key = "first_freeze_alert_year" THEN [n |-> v] ELSE [s |-> v]

\* variant: no separator is written between two members
RECURSIVE DumpMembersNoComma(_, _)
DumpMembersNoComma(data, keys) ==
    IF keys = << >> THEN << >>
    ELSE LET key == Head(keys)
             rest == DumpMembersNoComma(data, Tail(keys))
         IN  IF key \in DOMAIN data
             THEN <<[k |-> key], [p |-> ":"], ValueToken(key, data[key])>> \o rest
             ELSE rest

RECURSIVE DumpMembers(_, _)
DumpMembers(data, keys) ==
    IF keys = << >> THEN << >>
    ELSE LET key == Head(keys)
             rest == DumpMembers(data, Tail(keys))
         IN  IF key \in DOMAIN data
             THEN <<[k |-> key], [p |-> ":"], ValueToken(key, data[key])>>
                  \o (IF rest = << >> THEN << >> ELSE <<[p |-> ","]>> \o rest)
             ELSE rest

\* json.dump(data, f): the text written for a value
json_dump(value) ==
    IF value.type = "list" THEN <<[p |-> "["], [p |-> "]"]>>
    ELSE <<[p |-> "{"]>> \o DumpMembers(value.data, KeyOrder) \o <<[p |-> "}"]>>

IsPunct(tok, c) == "p" \in DOMAIN tok /\ tok.p = c

IsValue(tok) == "s" \in DOMAIN tok \/ "n" \in DOMAIN tok

ValueOf(tok) == IF "s" \in DOMAIN tok THEN tok.s ELSE tok.n

\* json.JSONDecodeError
JsonError == [ok |-> FALSE, value |-> PyDict(EmptyDoc)]

JsonOk(value) == [ok |-> TRUE, value |-> value]

\* the members of an object from token i on; a repeated key keeps its last value
RECURSIVE LoadMembers(_, _, _)
LoadMembers(text, i, data) ==
    IF i + 3 > Len(text) THEN JsonError
    ELSE IF ~("k" \in DOMAIN text[i] /\ IsPunct(text[i + 1], ":") /\ IsValue(text[i + 2]))
    THEN JsonError
    ELSE LET read == Put(data, text[i].k, ValueOf(text[i + 2]))
         IN  IF IsPunct(text[i + 3], "}")
             THEN IF i + 3 = Len(text) THEN JsonOk(PyDict(read)) ELSE JsonError
             ELSE IF IsPunct(text[i + 3], ",") THEN LoadMembers(text, i + 4, read)
             ELSE JsonError

\* json.load(f): the value a text parses to, or JSONDecodeError
json_load(text) ==
    IF Len(text) < 2 THEN JsonError
    ELSE IF IsPunct(text[1], "[")
    THEN IF Len(text) = 2 /\ IsPunct(text[2], "]") THEN JsonOk(PyList) ELSE JsonError
    ELSE IF ~IsPunct(text[1], "{") THEN JsonError
    ELSE IF IsPunct(text[2], "}")
    THEN IF Len(text) = 2 THEN JsonOk(PyDict(EmptyDoc)) ELSE JsonError
    ELSE LoadMembers(text, 2, EmptyDoc)

\* the file on disk: whether it exists, and its text
NoDisk == [exists |-> FALSE, text |-> << >>]

DiskWith(text) == [exists |-> TRUE, text |-> text]

\* what get_cooldown_data finds: cooldown_path.exists(), then json.load under
\* except (json.JSONDecodeError, IOError)
FileOf(d) ==
    IF ~d.exists THEN MissingFile
    ELSE LET r == json_load(d.text)
         IN  IF ~r.ok THEN [kind |-> "malformed", content |-> EmptyDoc]
             ELSE IF r.value.type # "dict" THEN [kind |-> "non_object", content |-> EmptyDoc]
             ELSE [kind |-> "object", content |-> r.value.data]

\* the Python value get_cooldown_data returns on file f
Loaded(f) == [type |-> loaded_type(f), data |-> get_cooldown_data(f)]

(***************************************************************************)
(* Gateway payloads.  A response is either a failure (transport error or   *)
(* provider-reported error, raised by aeris_request) or a list of periods. *)
(***************************************************************************)
ApiFailure == [ok |-> FALSE, periods |-> << >>]

ApiSuccess(periods) == [ok |-> TRUE, periods |-> periods]

\* str.lower() on the characters that occur in the weather texts
Lower(c) ==
    CASE c = "S" -> "s" [] c = "N" -> "n" [] c = "O" -> "o" [] c = "W" -> "w"
      [] c = "R" -> "r" [] OTHER -> c

LowerStr(s) == [i \in 1..Len(s) |-> Lower(s[i])]

\* sub in s
Contains(sub, s) ==
    \E i \in 0..(Len(s) - Len(sub)) :
        \A k \in 1..Len(sub) : s[i + k] = sub[k]

SnowWord == <<"s", "n", "o", "w">>

\* period.get('dateTimeISO', '')[:10]
DateStr(period) ==
    IF period.dateTimeISO = None THEN << >>
    ELSE SubSeq(The(period.dateTimeISO), 1, 1)

\* period.get(key, '') for the text fields
TextOf(o) == IF o = None THEN << >> ELSE The(o)

\* period.get(key, 0) or 0
NumOrZero(o) == IF o = None THEN 0 ELSE The(o)

(***************************************************************************)
(* Cooldown gates                                                          *)
(***************************************************************************)
\* variant: the window ends one day early
WindowActiveOneDayShort(last_alert, days, now) ==
    IF last_alert = None THEN FALSE
    ELSE now < fromisoformat(The(last_alert)) + timedelta(days - 1)

\* variant: the window still counts at its last instant
WindowActiveInclusive(last_alert, days, now) ==
    IF last_alert = None THEN FALSE
    ELSE now <= fromisoformat(The(last_alert)) + timedelta(days)

\* the rolling-window test shared by temp-drop, heat-wave and snow
WindowActive(last_alert, days, now) ==
    IF last_alert = None THEN FALSE
    ELSE now < fromisoformat(The(last_alert)) + timedelta(days)

is_temp_drop_on_cooldown(f, now) ==
    WindowActive(Get(get_cooldown_data(f), "last_temp_drop_alert"),
                 TEMP_DROP_COOLDOWN_DAYS, now)

heat_wave_on_cooldown(f, now) ==
    WindowActive(Get(get_cooldown_data(f), "last_heat_wave_alert"),
                 HEAT_WAVE_COOLDOWN_DAYS, now)

snow_on_cooldown(f, now) ==
    WindowActive(Get(get_cooldown_data(f), "last_snow_alert"),
                 SNOW_COOLDOWN_DAYS, now)

\* variant: the end month is excluded
in_freeze_season_open_end(now) ==
    FIRST_FREEZE_SEASON_START <= MonthOf(now) /\ MonthOf(now) < FIRST_FREEZE_SEASON_END

\* FIRST_FREEZE_SEASON_START <= now.month <= FIRST_FREEZE_SEASON_END
in_freeze_season(now) ==
    FIRST_FREEZE_SEASON_START <= MonthOf(now) /\ MonthOf(now) <= FIRST_FREEZE_SEASON_END

\* last_freeze_alert == now.year
first_freeze_already_alerted(f, now) ==
    Get(get_cooldown_data(f), "first_freeze_alert_year") = Some(YearOf(now))

in_shoulder_month(now) == MonthOf(now) \in SHOULDER_FREEZE_MONTHS

\* data.get(key) followed by datetime.fromisoformat(last_alert) raises:
\* AttributeError when the loaded value is no dict, ValueError when the
\* stored value is no timestamp
cooldown_read_raises(f, key) ==
    \/ loaded_type(f) # "dict"
    \/ LET last_alert == Get(get_cooldown_data(f), key)
       IN  last_alert # None /\ fromisoformat_raises(The(last_alert))

\* data.get('first_freeze_alert_year') raises when the loaded value is no dict
year_read_raises(f) == loaded_type(f) # "dict"

\* variant: a rolling 24-hour window instead of the calendar date
shoulder_alerted_last_24h(f, now) ==
    LET last_alert == Get(get_cooldown_data(f), "last_shoulder_freeze_alert")
    IN  IF last_alert = None THEN FALSE
        ELSE now < fromisoformat(The(last_alert)) + timedelta(1)

\* last_date == now.date()
shoulder_alerted_today(f, now) ==
    LET last_alert == Get(get_cooldown_data(f), "last_shoulder_freeze_alert")
    IN  IF last_alert = None THEN FALSE
        ELSE DateOf(fromisoformat(The(last_alert))) = DateOf(now)

(***************************************************************************)
(* Cooldown writes: read the whole document, set one key, save it          *)
(***************************************************************************)
set_temp_drop_cooldown(f, now) ==
    save_cooldown_data(Put(get_cooldown_data(f), "last_temp_drop_alert", isoformat(now)))

set_first_freeze_cooldown(f, now) ==
    save_cooldown_data(Put(get_cooldown_data(f), "first_freeze_alert_year", YearOf(now)))

set_heat_wave_cooldown(f, now) ==
    save_cooldown_data(Put(get_cooldown_data(f), "last_heat_wave_alert", isoformat(now)))

\* variant: the document is not read first
set_snow_cooldown_alone(f, now) ==
    save_cooldown_data(Put(EmptyDoc, "last_snow_alert", isoformat(now)))

set_snow_cooldown(f, now) ==
    save_cooldown_data(Put(get_cooldown_data(f), "last_snow_alert", isoformat(now)))

set_shoulder_freeze_cooldown(f, now) ==
    save_cooldown_data(Put(get_cooldown_data(f), "last_shoulder_freeze_alert", isoformat(now)))

(***************************************************************************)
(* Rule evaluators.  Each returns the tuple of the Python function as a    *)
(* record: should_notify, the measured value, the description / date /     *)
(* list of days (detail, << >> for "" and []), and calls, the number of    *)
(* aeris_request calls it made.                                            *)
(***************************************************************************)
Outcome(fires, value, detail, calls) ==
    [should_notify |-> fires, value |-> value, detail |-> detail, calls |-> calls,
     raised |-> FALSE]

\* (False, 0.0, "") / (False, [], 0) / (False, 0.0)
NoFire(calls) == Outcome(FALSE, 0, << >>, calls)

\* an exception left the evaluator: the cooldown read is outside its try block
Raised == [NoFire(0) EXCEPT !.raised = TRUE]

\* variant: the threshold itself does not fire
check_rainfall_strict(resp) ==
    IF ~resp.ok THEN NoFire(1)
    ELSE IF resp.periods = << >> THEN NoFire(1)
    ELSE LET rainfall == NumOrZero(resp.periods[1].totalIN)
         IN  Outcome(rainfall > RAINFALL_THRESHOLD_INCHES, rainfall, << >>, 1)

check_rainfall(resp) ==
    IF ~resp.ok THEN NoFire(1)
    ELSE IF resp.periods = << >> THEN NoFire(1)
    ELSE LET rainfall == NumOrZero(resp.periods[1].totalIN)
         IN  Outcome(rainfall >= RAINFALL_THRESHOLD_INCHES, rainfall, << >>, 1)

\* temps: the periods that carry a maxTempF, in order
RECURSIVE ExtractHighs(_)
ExtractHighs(periods) ==
    IF periods = << >> THEN << >>
    ELSE LET p == Head(periods)
         IN  (IF p.maxTempF # None
              THEN <<[date |-> DateStr(p), high |-> The(p.maxTempF)]>>
              ELSE << >>) \o ExtractHighs(Tail(periods))

\* variant: the window reaches four positions ahead
RECURSIVE ScanDropsWindow4(_, _, _, _)
ScanDropsWindow4(temps, i, j, acc) ==
    IF i > Len(temps) THEN acc
    ELSE IF j > Min(i + 4, Len(temps)) THEN ScanDropsWindow4(temps, i + 1, i + 2, acc)
    ELSE LET drop == temps[i].high - temps[j].high
         IN  ScanDropsWindow4(temps, i, j + 1,
                 IF drop > acc.max_drop
                 THEN [max_drop |-> drop,
                       drop_desc |-> temps[i].date \o <<temps[i].high>>
                                     \o temps[j].date \o <<temps[j].high>>]
                 ELSE acc)

\* the nested loops over i and j (1-based), acc = [max_drop, drop_desc]
RECURSIVE ScanDrops(_, _, _, _)
ScanDrops(temps, i, j, acc) ==
    IF i > Len(temps) THEN acc
    ELSE IF j > Min(i + 3, Len(temps)) THEN ScanDrops(temps, i + 1, i + 2, acc)
    ELSE LET drop == temps[i].high - temps[j].high
         IN  ScanDrops(temps, i, j + 1,
                 IF drop > acc.max_drop
                 THEN [max_drop |-> drop,
                       drop_desc |-> temps[i].date \o <<temps[i].high>>
                                     \o temps[j].date \o <<temps[j].high>>]
                 ELSE acc)

\* check_temp_drop with TEMP_DROP_THRESHOLD_F read from the environment as
\* threshold
check_temp_drop_with(threshold, f, now, resp) ==
    IF cooldown_read_raises(f, "last_temp_drop_alert") THEN Raised
    ELSE IF is_temp_drop_on_cooldown(f, now) THEN NoFire(0)
    ELSE IF ~resp.ok THEN NoFire(1)
    ELSE IF Len(resp.periods) < 2 THEN NoFire(1)
    ELSE LET temps == ExtractHighs(resp.periods)
             best == ScanDrops(temps, 1, 2, [max_drop |-> 0, drop_desc |-> << >>])
         IN  Outcome(best.max_drop >= threshold, best.max_drop,
                     best.drop_desc, 1)

check_temp_drop(f, now, resp) ==
    check_temp_drop_with(TEMP_DROP_THRESHOLD_F, f, now, resp)

\* variant: the scan goes on to a colder day when there is one
RECURSIVE ScanFreezeColdest(_)
ScanFreezeColdest(periods) ==
    IF periods = << >> THEN NoFire(1)
    ELSE LET p == Head(periods)
             later == ScanFreezeColdest(Tail(periods))
         IN  IF p.minTempF # None /\ The(p.minTempF) <= FREEZE_THRESHOLD_F
                /\ ~(later.should_notify /\ later.value < The(p.minTempF))
             THEN Outcome(TRUE, The(p.minTempF), DateStr(p), 1)
             ELSE later

\* the first period with minTempF <= FREEZE_THRESHOLD_F
RECURSIVE ScanFreeze(_)
ScanFreeze(periods) ==
    IF periods = << >> THEN NoFire(1)
    ELSE LET p == Head(periods)
         IN  IF p.minTempF # None /\ The(p.minTempF) <= FREEZE_THRESHOLD_F
             THEN Outcome(TRUE, The(p.minTempF), DateStr(p), 1)
             ELSE ScanFreeze(Tail(periods))

check_first_freeze(f, now, resp) ==
    IF ~in_freeze_season(now) THEN NoFire(0)
    ELSE IF year_read_raises(f) THEN Raised
    ELSE IF first_freeze_already_alerted(f, now) THEN NoFire(0)
    ELSE IF ~resp.ok THEN NoFire(1)
    ELSE ScanFreeze(resp.periods)

\* variant: the loop goes on after a streak that qualifies and keeps the last
\* one that does
RECURSIVE ScanStreakKeepLast(_, _)
ScanStreakKeepLast(periods, current_streak) ==
    IF periods = << >> THEN [hot_days |-> << >>, current_streak |-> current_streak]
    ELSE LET p == Head(periods)
         IN  IF p.maxTempF # None /\ The(p.maxTempF) >= HEAT_WAVE_THRESHOLD_F
             THEN ScanStreakKeepLast(Tail(periods),
                      Append(current_streak,
                             [date |-> DateStr(p), high |-> The(p.maxTempF)]))
             ELSE LET later == ScanStreakKeepLast(Tail(periods), << >>)
                  IN  IF \/ later.hot_days # << >>
                         \/ Len(later.current_streak) >= HEAT_WAVE_CONSECUTIVE_DAYS
                         \/ Len(current_streak) < HEAT_WAVE_CONSECUTIVE_DAYS
                      THEN later
                      ELSE [hot_days |-> current_streak,
                            current_streak |-> current_streak]

\* the streak loop: returns [hot_days, current_streak] as the loop leaves them
RECURSIVE ScanStreak(_, _)
ScanStreak(periods, current_streak) ==
    IF periods = << >> THEN [hot_days |-> << >>, current_streak |-> current_streak]
    ELSE LET p == Head(periods)
         IN  IF p.maxTempF # None /\ The(p.maxTempF) >= HEAT_WAVE_THRESHOLD_F
             THEN ScanStreak(Tail(periods),
                      Append(current_streak,
                             [date |-> DateStr(p), high |-> The(p.maxTempF)]))
             ELSE IF Len(current_streak) >= HEAT_WAVE_CONSECUTIVE_DAYS
                  THEN [hot_days |-> current_streak, current_streak |-> current_streak]
                  ELSE ScanStreak(Tail(periods), << >>)

\* variant: a streak still running when the data ends is not counted
check_heat_wave_closed_streaks(f, now, resp) ==
    IF cooldown_read_raises(f, "last_heat_wave_alert") THEN Raised
    ELSE IF heat_wave_on_cooldown(f, now) THEN NoFire(0)
    ELSE IF ~resp.ok THEN NoFire(1)
    ELSE LET hot_days == ScanStreak(resp.periods, << >>).hot_days
         IN  IF hot_days # << >> THEN Outcome(TRUE, Len(hot_days), hot_days, 1)
             ELSE NoFire(1)

check_heat_wave(f, now, resp) ==
    IF cooldown_read_raises(f, "last_heat_wave_alert") THEN Raised
    ELSE IF heat_wave_on_cooldown(f, now) THEN NoFire(0)
    ELSE IF ~resp.ok THEN NoFire(1)
    ELSE LET scan == ScanStreak(resp.periods, << >>)
             hot_days ==
                 IF Len(scan.current_streak) >= HEAT_WAVE_CONSECUTIVE_DAYS
                    /\ scan.hot_days = << >>
                 THEN scan.current_streak ELSE scan.hot_days
         IN  IF hot_days # << >> THEN Outcome(TRUE, Len(hot_days), hot_days, 1)
             ELSE NoFire(1)

\* variant: the texts are matched as they are, without lower()
has_snow_case_sensitive(p) ==
    \/ Contains(SnowWord, TextOf(p.weather))
    \/ Contains(SnowWord, TextOf(p.weatherPrimary))
    \/ NumOrZero(p.snowIN) > 0

\* 'snow' in weather or 'snow' in weather_primary or snow_in > 0
has_snow(p) ==
    \/ Contains(SnowWord, LowerStr(TextOf(p.weather)))
    \/ Contains(SnowWord, LowerStr(TextOf(p.weatherPrimary)))
    \/ NumOrZero(p.snowIN) > 0

RECURSIVE ScanSnow(_)
ScanSnow(periods) ==
    IF periods = << >> THEN NoFire(1)
    ELSE LET p == Head(periods)
             pop == NumOrZero(p.pop)
         IN  IF has_snow(p) /\ pop >= SNOW_CHANCE_THRESHOLD_PERCENT
             THEN Outcome(TRUE, pop, DateStr(p), 1)
             ELSE ScanSnow(Tail(periods))

check_snow_chance(f, now, resp) ==
    IF cooldown_read_raises(f, "last_snow_alert") THEN Raised
    ELSE IF snow_on_cooldown(f, now) THEN NoFire(0)
    ELSE IF ~resp.ok THEN NoFire(1)
    ELSE ScanSnow(resp.periods)

\* period.get('isDay', True)
IsDay(p) == IF p.isDay = None THEN TRUE ELSE The(p.isDay)

\* variant: a night at or above the threshold does not end the scan
RECURSIVE ScanNightAnyNight(_)
ScanNightAnyNight(periods) ==
    IF periods = << >> THEN NoFire(1)
    ELSE LET p == Head(periods)
         IN  IF ~IsDay(p) /\ p.minTempF # None
                /\ The(p.minTempF) < SHOULDER_FREEZE_THRESHOLD_F
             THEN Outcome(TRUE, The(p.minTempF), <<The(p.minTempF)>> \o DateStr(p), 1)
             ELSE ScanNightAnyNight(Tail(periods))

\* the first night period with a minTempF decides
RECURSIVE ScanNight(_)
ScanNight(periods) ==
    IF periods = << >> THEN NoFire(1)
    ELSE LET p == Head(periods)
         IN  IF ~IsDay(p) /\ p.minTempF # None
             THEN IF The(p.minTempF) < SHOULDER_FREEZE_THRESHOLD_F
                  THEN Outcome(TRUE, The(p.minTempF),
                               <<The(p.minTempF)>> \o DateStr(p), 1)
                  ELSE NoFire(1)
             ELSE ScanNight(Tail(periods))

check_shoulder_freeze(f, now, resp) ==
    IF ~in_shoulder_month(now) THEN NoFire(0)
    ELSE IF cooldown_read_raises(f, "last_shoulder_freeze_alert") THEN Raised
    ELSE IF shoulder_alerted_today(f, now) THEN NoFire(0)
    ELSE IF ~resp.ok THEN NoFire(1)
    ELSE ScanNight(resp.periods)

(***************************************************************************)
(* Inputs of the gateways                                                  *)
(***************************************************************************)
\* a forecast period of day number d with no optional field present
BlankPeriod(d) ==
    [dateTimeISO |-> Some(<<d, "T00:00:00">>), maxTempF |-> None, minTempF |-> None,
     isDay |-> None, weather |-> None, weatherPrimary |-> None,
     snowIN |-> None, pop |-> None]

HighPeriod(d, high) == [BlankPeriod(d) EXCEPT !.maxTempF = high]

LowPeriod(d, low) == [BlankPeriod(d) EXCEPT !.minTempF = low]

SnowPeriod(d, c) ==
    [BlankPeriod(d) EXCEPT !.weather = c.weather, !.snowIN = c.snowIN, !.pop = c.pop]

NightPeriod(d, c) == [BlankPeriod(d) EXCEPT !.isDay = c.isDay, !.minTempF = c.minTempF]

\* all sequences over S of length 0..MaxPeriods
SeqsUpTo(S) == UNION {[1..n -> S] : n \in 0..MaxPeriods}

DropHighs == {None, Some(70), Some(50)}

FreezeLows == {None, Some(40), Some(32)}

HeatHighs == {None, Some(95), Some(90)}

SnowChoices ==
    {[weather |-> None, snowIN |-> None, pop |-> None],
     [weather |-> Some(<<"S", "n", "o", "w">>), snowIN |-> None, pop |-> Some(30)],
     [weather |-> Some(<<"r", "a", "i", "n">>), snowIN |-> Some(20), pop |-> Some(15)]}

NightChoices ==
    {[isDay |-> Some(TRUE), minTempF |-> Some(28)],
     [isDay |-> Some(FALSE), minTempF |-> Some(28)],
     [isDay |-> Some(FALSE), minTempF |-> Some(33)]}

RainTotals == {None, Some(0), Some(10), Some(25)}

RainResponses ==
    {ApiFailure, ApiSuccess(<< >>)} \cup {ApiSuccess(<<[totalIN |-> r]>>) : r \in RainTotals}

TempDropResponses ==
    {ApiFailure} \cup
    {ApiSuccess([i \in DOMAIN v |-> HighPeriod(i, v[i])]) : v \in SeqsUpTo(DropHighs)}

FreezeResponses ==
    {ApiFailure} \cup
    {ApiSuccess([i \in DOMAIN v |-> LowPeriod(i, v[i])]) : v \in SeqsUpTo(FreezeLows)}

HeatResponses ==
    {ApiFailure} \cup
    {ApiSuccess([i \in DOMAIN v |-> HighPeriod(i, v[i])]) : v \in SeqsUpTo(HeatHighs)}

SnowResponses ==
    {ApiFailure} \cup
    {ApiSuccess([i \in DOMAIN v |-> SnowPeriod(i, v[i])]) : v \in SeqsUpTo(SnowChoices)}

ShoulderResponses ==
    {ApiFailure} \cup
    {ApiSuccess([i \in DOMAIN v |-> NightPeriod(i, v[i])]) : v \in SeqsUpTo(NightChoices)}

(***************************************************************************)
(* Configuration and schedule                                              *)
(***************************************************************************)
FullRunRules == {"rainfall", "temp_drop", "first_freeze", "heat_wave", "snow_chance"}

AllRules == FullRunRules \cup {"shoulder_freeze"}

\* the ALERT_* toggles: the default (all on) and three partial settings
EnabledConfigs ==
    {AllRules, {"temp_drop", "first_freeze"}, {"heat_wave", "snow_chance"},
     {"rainfall", "shoulder_freeze"}}

\* invocations explored per configuration
RunBudget(flags) == IF flags = AllRules THEN 1 ELSE MaxRuns

\* first tick of day `day` of month `month` of BaseYear
TickAt(month, day) == (month - 1) * TicksPerMonth + (day - 1) * TicksPerDay

\* instants of the first invocation: end of September, 1 November (morning
\* and one tick later), end of December
StartTimes ==
    {TickAt(10, 1) - 1, TickAt(11, 1), TickAt(11, 1) + 1, TickAt(12, DaysPerMonth) + TicksPerDay - 1}

\* time between two invocations
Deltas ==
    {1, timedelta(SNOW_COOLDOWN_DAYS) - 1, timedelta(SNOW_COOLDOWN_DAYS),
     timedelta(TEMP_DROP_COOLDOWN_DAYS), timedelta(HEAT_WAVE_COOLDOWN_DAYS),
     TicksPerYear}

(***************************************************************************)
(* State                                                                   *)
(***************************************************************************)
VARIABLES
    now,                \* datetime.now() of the current invocation
    file,               \* notification_cooldown.json
    enabled,            \* the rules whose ALERT_* flag is true
    pc,                 \* "idle", the next block of the run, or "done"
    test_mode,          \* the test_mode argument of the run
    last,               \* what the block executed last did
    sendTotal,          \* send_pushover_notification calls in this run
    writeTotal,         \* save_cooldown_data calls in this run
    firedCount,         \* evaluators that returned should_notify in this run
    evaluated,          \* rules whose evaluator was invoked in this run
    fetchFailed,        \* some aeris_request of this run raised
    startFile,          \* file when the run started
    runs,               \* invocations so far
    freezeAttempted,    \* years in which a first-freeze notification was attempted
    shoulderDelivered,  \* [date, n]: shoulder notifications delivered on date
    deliveries,         \* per rolling rule: instants of its last two delivered notifications
    disk,               \* notification_cooldown.json as text on disk
    saver,              \* the save_cooldown_data call in progress, or the last one
    loaded,             \* what the latest get_cooldown_data call returned
    call,               \* the evaluator called last, with its arguments
    ret,                \* what that evaluator returned
    shared,             \* the file two invocations of the program use
    racers,             \* those two invocations: position, rule, instant, file as read
    overlap             \* the two invocations have been running at the same time

runVars ==
    <<now, file, enabled, pc, test_mode, last, sendTotal, writeTotal, firedCount, evaluated,
      fetchFailed, startFile, runs, freezeAttempted, shoulderDelivered, deliveries>>

storeVars == <<disk, saver, loaded>>

ruleVars == <<call, ret>>

raceVars == <<shared, racers, overlap>>

vars == <<runVars, storeVars, ruleVars, raceVars>>

NoBlock(f) ==
    [rule |-> "none", ran |-> FALSE, outcome |-> NoFire(0), failed |-> FALSE,
     sends |-> 0, delivered |-> FALSE, writes |-> 0, before |-> f]

\* no notification of a rolling-window rule delivered yet
NoDeliveries ==
    [rule \in {"temp_drop", "heat_wave", "snow_chance"} |-> [prev |-> None, latest |-> None]]

\* no save_cooldown_data call yet
NoSave ==
    [pc |-> "idle", pending |-> << >>, value |-> PyDict(EmptyDoc),
     old |-> PyDict(EmptyDoc), from_load |-> FALSE, done |-> FALSE]

\* no get_cooldown_data call yet
NotLoaded ==
    [type |-> "none", data |-> EmptyDoc, fresh |-> FALSE, during |-> FALSE]

\* no evaluator called yet
NoCall == [rule |-> "none", now |-> 0, resp |-> ApiFailure, threshold |-> None]

\* an invocation that has not started
NoRacer == [pc |-> "idle", rule |-> "none", at |-> 0, seen |-> MissingFile]

\* no two invocations are run side by side
RaceIdle == shared = MissingFile /\ racers = [p \in 1..2 |-> NoRacer] /\ overlap = FALSE

\* the text-level store is not exercised
StoreIdle == disk = NoDisk /\ saver = NoSave /\ loaded = NotLoaded /\ RaceIdle

\* no evaluator is called on its own
RulesIdle == call = NoCall /\ ret = NoFire(0)

Init ==
    /\ StoreIdle
    /\ RulesIdle
    /\ now \in StartTimes
    /\ file = MissingFile
    /\ enabled \in EnabledConfigs
    /\ pc = "idle"
    /\ test_mode = FALSE
    /\ last = NoBlock(MissingFile)
    /\ sendTotal = 0
    /\ writeTotal = 0
    /\ firedCount = 0
    /\ evaluated = {}
    /\ fetchFailed = FALSE
    /\ startFile = MissingFile
    /\ runs = 0
    /\ freezeAttempted = {}
    /\ shoulderDelivered = [date |-> << >>, n |-> 0]
    /\ deliveries = NoDeliveries

(***************************************************************************)
(* Orchestrator                                                            *)
(***************************************************************************)
\* variant: the snow block runs whatever its flag
IsEnabledSnowAlways(rule, flags) == rule \in flags \/ rule = "snow_chance"

\* if ALERT_X:
IsEnabled(rule, flags) == rule \in flags

\* variant: the test_mode branch is missing
NotifyIgnoringTestMode(should_notify, test, ok) ==
    [sends |-> IF should_notify THEN 1 ELSE 0,
     delivered |-> should_notify /\ ok,
     write |-> should_notify /\ ok]

\* variant: the cooldown is set whatever the send returned
NotifyThenAlwaysCooldown(should_notify, test, ok) ==
    [sends |-> IF should_notify /\ ~test THEN 1 ELSE 0,
     delivered |-> should_notify /\ ~test /\ ok,
     write |-> should_notify /\ ~test]

\* if should_notify: if test_mode: log
\*                    else: if send_pushover_notification(...): set_..._cooldown()
\* ok is the value send_pushover_notification returns when it is called
NotifyAndCooldown(should_notify, test, ok) ==
    [sends |-> IF should_notify /\ ~test THEN 1 ELSE 0,
     delivered |-> should_notify /\ ~test /\ ok,
     write |-> should_notify /\ ~test /\ ok]

\* variant: the rainfall block sets a cooldown after a delivery
NotifyOnlyWithCooldown(should_notify, test, ok) ==
    [sends |-> IF should_notify /\ ~test THEN 1 ELSE 0,
     delivered |-> should_notify /\ ~test /\ ok,
     write |-> should_notify /\ ~test /\ ok]

\* variant: the rainfall block never sends
NotifyNever(should_notify, test, ok) ==
    [sends |-> 0, delivered |-> FALSE, write |-> FALSE]

\* the rainfall block: the result of the send is dropped, no cooldown
NotifyOnly(should_notify, test, ok) ==
    [sends |-> IF should_notify /\ ~test THEN 1 ELSE 0,
     delivered |-> should_notify /\ ~test /\ ok,
     write |-> FALSE]

\* variant: the exception is not caught in the evaluator and ends the run
AfterBlockPropagating(failed, next) == IF failed THEN "done" ELSE next

\* except Exception: log and return "does not fire"; the run goes on with the
\* block that follows
AfterBlock(failed, next) == next

\* one block of a run: rule, the evaluator's outcome out on response resp,
\* the notification step n, the file as the cooldown setter would leave it
Block(rule, out, resp, n, written, next) ==
    LET on == IsEnabled(rule, enabled)
        o == IF on THEN out ELSE NoFire(0)
        sends == IF on THEN n.sends ELSE 0
        write == on /\ n.write
        failed == on /\ o.calls = 1 /\ ~resp.ok
    IN  /\ last' = [rule |-> rule, ran |-> on, outcome |-> o, failed |-> failed,
                    sends |-> sends, delivered |-> on /\ n.delivered,
                    writes |-> IF write THEN 1 ELSE 0, before |-> file]
        /\ file' = IF write THEN written ELSE file
        /\ sendTotal' = sendTotal + sends
        /\ writeTotal' = writeTotal + (IF write THEN 1 ELSE 0)
        /\ firedCount' = firedCount + (IF o.should_notify THEN 1 ELSE 0)
        /\ evaluated' = IF on THEN evaluated \cup {rule} ELSE evaluated
        /\ fetchFailed' = (fetchFailed \/ failed)
        /\ pc' = IF on /\ o.raised THEN "crashed" ELSE AfterBlock(failed, next)
        /\ UNCHANGED <<now, enabled, test_mode, startFile, runs, storeVars, ruleVars,
                       raceVars>>

\* the delivery record of `rule` after its block: a delivered notification
\* becomes the latest one
DeliveredNow(rule, delivered) ==
    IF delivered
    THEN [deliveries EXCEPT ![rule] = [prev |-> @.latest, latest |-> Some(now)]]
    ELSE deliveries

\* main(): one invocation, a full run or the shoulder-freeze-only run
StartRun ==
    /\ pc = "idle"
    /\ runs < RunBudget(enabled)
    /\ \E shoulder_freeze \in BOOLEAN, dry_run \in BOOLEAN :
        /\ pc' = IF shoulder_freeze THEN "shoulder_freeze" ELSE "rainfall"
        /\ test_mode' = dry_run
    /\ runs' = runs + 1
    /\ startFile' = file
    /\ last' = NoBlock(file)
    /\ UNCHANGED <<now, file, enabled, sendTotal, writeTotal, firedCount, evaluated,
                   fetchFailed, freezeAttempted, shoulderDelivered, deliveries,
                   storeVars, ruleVars, raceVars>>

RunRainfall ==
    /\ pc = "rainfall"
    /\ \E resp \in RainResponses, ok \in BOOLEAN :
        LET out == check_rainfall(resp)
        IN  Block("rainfall", out, resp,
                  NotifyOnly(out.should_notify, test_mode, ok), file, "temp_drop")
    /\ UNCHANGED <<freezeAttempted, shoulderDelivered, deliveries>>

RunTempDrop ==
    /\ pc = "temp_drop"
    /\ \E resp \in TempDropResponses, ok \in BOOLEAN :
        LET out == check_temp_drop(file, now, resp)
        IN  Block("temp_drop", out, resp,
                  NotifyAndCooldown(out.should_notify, test_mode, ok),
                  set_temp_drop_cooldown(file, now), "first_freeze")
    /\ deliveries' = DeliveredNow("temp_drop", last'.delivered)
    /\ UNCHANGED <<freezeAttempted, shoulderDelivered>>

RunFirstFreeze ==
    /\ pc = "first_freeze"
    /\ \E resp \in FreezeResponses, ok \in BOOLEAN :
        LET out == check_first_freeze(file, now, resp)
        IN  Block("first_freeze", out, resp,
                  NotifyAndCooldown(out.should_notify, test_mode, ok),
                  set_first_freeze_cooldown(file, now), "heat_wave")
    /\ freezeAttempted' =
           IF last'.sends > 0 THEN freezeAttempted \cup {YearOf(now)}
           ELSE freezeAttempted
    /\ UNCHANGED <<shoulderDelivered, deliveries>>

RunHeatWave ==
    /\ pc = "heat_wave"
    /\ \E resp \in HeatResponses, ok \in BOOLEAN :
        LET out == check_heat_wave(file, now, resp)
        IN  Block("heat_wave", out, resp,
                  NotifyAndCooldown(out.should_notify, test_mode, ok),
                  set_heat_wave_cooldown(file, now), "snow_chance")
    /\ deliveries' = DeliveredNow("heat_wave", last'.delivered)
    /\ UNCHANGED <<freezeAttempted, shoulderDelivered>>

RunSnowChance ==
    /\ pc = "snow_chance"
    /\ \E resp \in SnowResponses, ok \in BOOLEAN :
        LET out == check_snow_chance(file, now, resp)
        IN  Block("snow_chance", out, resp,
                  NotifyAndCooldown(out.should_notify, test_mode, ok),
                  set_snow_cooldown(file, now), "done")
    /\ deliveries' = DeliveredNow("snow_chance", last'.delivered)
    /\ UNCHANGED <<freezeAttempted, shoulderDelivered>>

\* run_shoulder_freeze_check()
RunShoulderFreeze ==
    /\ pc = "shoulder_freeze"
    /\ \E resp \in ShoulderResponses, ok \in BOOLEAN :
        LET out == check_shoulder_freeze(file, now, resp)
        IN  Block("shoulder_freeze", out, resp,
                  NotifyAndCooldown(out.should_notify, test_mode, ok),
                  set_shoulder_freeze_cooldown(file, now), "done")
    /\ shoulderDelivered' =
           IF last'.delivered
           THEN [date |-> DateOf(now),
                 n |-> IF shoulderDelivered.date = DateOf(now)
                       THEN shoulderDelivered.n + 1 ELSE 1]
           ELSE shoulderDelivered
    /\ UNCHANGED <<freezeAttempted, deliveries>>

\* the process has exited (normally, or with the traceback of an uncaught
\* exception); the scheduler starts the next invocation later
NextInvocation ==
    /\ pc \in {"done", "crashed"}
    /\ \E d \in Deltas : now' = now + d
    /\ pc' = "idle"
    /\ test_mode' = FALSE
    /\ last' = NoBlock(file)
    /\ sendTotal' = 0
    /\ writeTotal' = 0
    /\ firedCount' = 0
    /\ evaluated' = {}
    /\ fetchFailed' = FALSE
    /\ startFile' = file
    /\ UNCHANGED <<file, enabled, runs, freezeAttempted, shoulderDelivered, deliveries,
                   storeVars, ruleVars, raceVars>>

Next ==
    \/ StartRun
    \/ RunRainfall
    \/ RunTempDrop
    \/ RunFirstFreeze
    \/ RunHeatWave
    \/ RunSnowChance
    \/ RunShoulderFreeze
    \/ NextInvocation

Spec == Init /\ [][Next]_vars

(***************************************************************************)
(* The cooldown store at the level of the file's text: get_cooldown_data   *)
(* and save_cooldown_data called by two invocations that overlap (the      *)
(* scheduled full run and the shoulder-freeze run share the file).         *)
(***************************************************************************)
\* an orchestrator that never starts
RunIdle ==
    /\ now = TickAt(11, 1)
    /\ file = MissingFile
    /\ enabled = AllRules
    /\ pc = "idle"
    /\ test_mode = FALSE
    /\ last = NoBlock(MissingFile)
    /\ sendTotal = 0
    /\ writeTotal = 0
    /\ firedCount = 0
    /\ evaluated = {}
    /\ fetchFailed = FALSE
    /\ startFile = MissingFile
    /\ runs = 0
    /\ freezeAttempted = {}
    /\ shoulderDelivered = [date |-> << >>, n |-> 0]
    /\ deliveries = NoDeliveries

\* records the setters write: each adds one key to what was read
StoreDocs ==
    LET a == EmptyDoc
        b == Put(a, "last_snow_alert", isoformat(TickAt(11, 1)))
        c == Put(b, "first_freeze_alert_year", YearOf(TickAt(11, 1)))
        d == Put(c, "last_temp_drop_alert", isoformat(TickAt(11, 1) + 1))
    IN  {a, b, c, d}

\* a stored string that is no timestamp (month 0)
BadStamp == [y |-> BaseYear, m |-> 0, d |-> 1, hms |-> 0]

\* a record whose heat-wave value is no timestamp
BadDoc == Put(EmptyDoc, "last_heat_wave_alert", BadStamp)

\* contents of the file when an invocation starts: no file, an empty file,
\* text that is no JSON, a JSON list, a record cut short, and whole records
InitialDisks ==
    {NoDisk, DiskWith(<< >>), DiskWith(<<[p |-> "{"], [p |-> "{"]>>),
     DiskWith(json_dump(PyList)), DiskWith(json_dump(PyDict(BadDoc)))}
    \cup {DiskWith(json_dump(PyDict(doc))) : doc \in StoreDocs}
    \cup {DiskWith(SubSeq(json_dump(PyDict(doc)), 1, 4)) : doc \in StoreDocs \ {EmptyDoc}}

InitStore ==
    /\ RunIdle
    /\ RulesIdle
    /\ disk \in InitialDisks
    /\ saver = NoSave
    /\ loaded = NotLoaded
    /\ RaceIdle

\* get_cooldown_data() by a reader, at any moment
StoreLoad ==
    /\ loaded' = [type |-> Loaded(FileOf(disk)).type, data |-> Loaded(FileOf(disk)).data,
                  fresh |-> TRUE, during |-> saver.pc = "open"]
    /\ UNCHANGED <<disk, saver, runVars, ruleVars, raceVars>>

\* open(cooldown_path, 'w'): the file exists and is empty from here on
SaveOpen(value, from_load) ==
    /\ saver.pc = "idle"
    /\ saver' = [pc |-> "open", pending |-> json_dump(value), value |-> value,
                 old |-> Loaded(FileOf(disk)), from_load |-> from_load, done |-> FALSE]
    /\ disk' = DiskWith(<< >>)
    /\ loaded' = [loaded EXCEPT !.fresh = FALSE]
    /\ UNCHANGED <<runVars, ruleVars, raceVars>>

\* save_cooldown_data(data) on a record
StoreSaveRecord ==
    /\ saver.pc = "idle"
    /\ \E doc \in StoreDocs : SaveOpen(PyDict(doc), FALSE)

\* save_cooldown_data(get_cooldown_data()): what was loaded, unmodified
StoreSaveLoaded ==
    /\ loaded.type # "none"
    /\ SaveOpen([type |-> loaded.type, data |-> loaded.data], TRUE)

\* json.dump writes the text piece by piece; some of it reaches the file
StoreWrite ==
    /\ saver.pc = "open"
    /\ saver.pending # << >>
    /\ \E n \in 1..Len(saver.pending) :
        /\ disk' = DiskWith(disk.text \o SubSeq(saver.pending, 1, n))
        /\ saver' = [saver EXCEPT !.pending = SubSeq(saver.pending, n + 1, Len(saver.pending))]
    /\ UNCHANGED <<loaded, runVars, ruleVars, raceVars>>

\* leaving the with block closes the file
StoreClose ==
    /\ saver.pc = "open"
    /\ saver.pending = << >>
    /\ saver' = [saver EXCEPT !.pc = "idle", !.done = TRUE]
    /\ UNCHANGED <<disk, loaded, runVars, ruleVars, raceVars>>

NextStore ==
    \/ StoreLoad
    \/ StoreSaveRecord
    \/ StoreSaveLoaded
    \/ StoreWrite
    \/ StoreClose

SpecStore == InitStore /\ [][NextStore]_vars

(***************************************************************************)
(* One invocation started on whatever the file holds: absent, unparsable,  *)
(* a JSON list, or a record (with a stored value that is no timestamp).    *)
(***************************************************************************)
PersistedFiles == {FileOf(d) : d \in InitialDisks}

InitAnyFile ==
    /\ StoreIdle
    /\ RulesIdle
    /\ now \in StartTimes
    /\ file \in PersistedFiles
    /\ enabled \in EnabledConfigs
    /\ pc = "idle"
    /\ test_mode = FALSE
    /\ last = NoBlock(file)
    /\ sendTotal = 0
    /\ writeTotal = 0
    /\ firedCount = 0
    /\ evaluated = {}
    /\ fetchFailed = FALSE
    /\ startFile = file
    /\ runs = RunBudget(enabled) - 1
    /\ freezeAttempted = {}
    /\ shoulderDelivered = [date |-> << >>, n |-> 0]
    /\ deliveries = NoDeliveries

SpecAnyFile == InitAnyFile /\ [][Next]_vars

(***************************************************************************)
(* Two invocations of the program on one file (the scheduled full run and  *)
(* the shoulder-freeze run, or a run started by hand).  Each has delivered *)
(* a notification of one rule and calls that rule's set_*_cooldown: it     *)
(* reads the document, then saves it with its key set.  Nothing orders the *)
(* two invocations: they may follow each other or interleave.              *)
(***************************************************************************)
RaceRules == {"temp_drop", "first_freeze", "heat_wave", "snow_chance", "shoulder_freeze"}

RaceTimes == {TickAt(11, 1), TickAt(11, 1) + 1}

\* what the file may hold when the first of the two starts
RaceFiles == {MissingFile} \cup {save_cooldown_data(doc) : doc \in StoreDocs}

\* set_*_cooldown of `rule` at instant t, on the file as it was read
SetCooldown(rule, f, t) ==
    CASE rule = "temp_drop" -> set_temp_drop_cooldown(f, t)
      [] rule = "first_freeze" -> set_first_freeze_cooldown(f, t)
      [] rule = "heat_wave" -> set_heat_wave_cooldown(f, t)
      [] rule = "snow_chance" -> set_snow_cooldown(f, t)
      [] rule = "shoulder_freeze" -> set_shoulder_freeze_cooldown(f, t)

InitRace ==
    /\ RunIdle
    /\ RulesIdle
    /\ disk = NoDisk /\ saver = NoSave /\ loaded = NotLoaded
    /\ shared \in RaceFiles
    /\ racers = [p \in 1..2 |-> NoRacer]
    /\ overlap = FALSE

\* invocation p starts, its rule fires and its notification is delivered
RaceDeliver(p) ==
    /\ racers[p].pc = "idle"
    /\ \E rule \in RaceRules, t \in RaceTimes :
        racers' = [racers EXCEPT ![p] = [pc |-> "delivered", rule |-> rule, at |-> t,
                                         seen |-> MissingFile]]
    /\ overlap' = (overlap \/ racers[3 - p].pc \in {"delivered", "read"})
    /\ UNCHANGED <<shared, runVars, storeVars, ruleVars>>

\* data = get_cooldown_data()
RaceRead(p) ==
    /\ racers[p].pc = "delivered"
    /\ racers' = [racers EXCEPT ![p].pc = "read", ![p].seen = shared]
    /\ UNCHANGED <<shared, overlap, runVars, storeVars, ruleVars>>

\* data[key] = ...; save_cooldown_data(data)
RaceSave(p) ==
    /\ racers[p].pc = "read"
    /\ shared' = SetCooldown(racers[p].rule, racers[p].seen, racers[p].at)
    /\ racers' = [racers EXCEPT ![p].pc = "done"]
    /\ UNCHANGED <<overlap, runVars, storeVars, ruleVars>>

NextRace ==
    \/ \E p \in 1..2 : RaceDeliver(p)
    \/ \E p \in 1..2 : RaceRead(p)
    \/ \E p \in 1..2 : RaceSave(p)

SpecRace == InitRace /\ [][NextRace]_vars

(***************************************************************************)
(* The evaluators called on their own, on every forecast of up to          *)
(* MaxForecast periods over a few values around each threshold, with the   *)
(* cooldown file absent.                                                   *)
(***************************************************************************)
\* all sequences over S of length 0..MaxForecast
Forecasts(S) == UNION {[1..n -> S] : n \in 0..MaxForecast}

\* a forecast of highs that are all present
HighsOf(v) == [i \in DOMAIN v |-> HighPeriod(i, Some(v[i]))]

RuleRainTotals == {None, Some(0), Some(24), Some(25), Some(26)}

RuleRainResponses ==
    {ApiFailure, ApiSuccess(<< >>)}
    \cup {ApiSuccess(<<[totalIN |-> r]>>) : r \in RuleRainTotals}

RuleDropHighs == {None, Some(70), Some(60), Some(50)}

\* a week of highs whose drop of 20 lies between its second and fifth day
WindowExample == <<70, 68, 65, 62, 48, 50, 55>>

RuleDropResponses ==
    {ApiFailure, ApiSuccess(HighsOf(<<70, 60, 45, 50, 55, 60, 65>>)),
     ApiSuccess(HighsOf(WindowExample))}
    \cup {ApiSuccess([i \in DOMAIN v |-> HighPeriod(i, v[i])]) : v \in Forecasts(RuleDropHighs)}

\* values of TEMP_DROP_THRESHOLD_F an environment can set: int() accepts any
\* integer, the default among them
RuleDropThresholds == {0, 10, TEMP_DROP_THRESHOLD_F}

RuleFreezeLows == {None, Some(40), Some(32), Some(28)}

RuleFreezeResponses ==
    {ApiFailure}
    \cup {ApiSuccess([i \in DOMAIN v |-> LowPeriod(i, v[i])]) : v \in Forecasts(RuleFreezeLows)}

RuleHeatHighs == {None, Some(94), Some(95)}

\* highs with two hot days on either side of a cooler one
BrokenStreakExample == <<96, 97, 85, 96, 97>>

\* a week with two streaks of three hot days
TwoStreakExample == <<95, 96, 97, 90, 98, 99, 98>>

RuleHeatResponses ==
    {ApiFailure, ApiSuccess(HighsOf(BrokenStreakExample)),
     ApiSuccess(HighsOf(TwoStreakExample)),
     ApiSuccess(HighsOf(<<90, 96, 98, 97, 88>>))}
    \cup {ApiSuccess([i \in DOMAIN v |-> HighPeriod(i, v[i])]) : v \in Forecasts(RuleHeatHighs)}

SnowText == <<"S", "n", "o", "w">>

SnowUpper == <<"S", "N", "O", "W">>

RainText == <<"r", "a", "i", "n">>

NowText == <<"n", "o", "w">>

\* a period with the fields the snow rule reads
SnowDay(d, c) ==
    [BlankPeriod(d) EXCEPT !.weather = c.weather, !.weatherPrimary = c.weatherPrimary,
                           !.snowIN = c.snowIN, !.pop = c.pop]

RuleSnowChoices ==
    {[weather |-> None, weatherPrimary |-> None, snowIN |-> None, pop |-> None],
     [weather |-> None, weatherPrimary |-> None, snowIN |-> None, pop |-> Some(90)],
     [weather |-> Some(SnowText), weatherPrimary |-> None, snowIN |-> None, pop |-> Some(29)],
     [weather |-> Some(NowText), weatherPrimary |-> Some(SnowUpper), snowIN |-> Some(0),
      pop |-> Some(30)],
     [weather |-> Some(RainText), weatherPrimary |-> None, snowIN |-> Some(20),
      pop |-> Some(45)],
     [weather |-> Some(SnowText), weatherPrimary |-> None, snowIN |-> Some(20), pop |-> None]}

RuleSnowResponses ==
    {ApiFailure}
    \cup {ApiSuccess([i \in DOMAIN v |-> SnowDay(i, v[i])]) : v \in Forecasts(RuleSnowChoices)}

RuleNightChoices ==
    {[isDay |-> None, minTempF |-> None],
     [isDay |-> Some(TRUE), minTempF |-> Some(28)],
     [isDay |-> None, minTempF |-> Some(28)],
     [isDay |-> Some(FALSE), minTempF |-> None],
     [isDay |-> Some(FALSE), minTempF |-> Some(32)],
     [isDay |-> Some(FALSE), minTempF |-> Some(33)]}

RuleNightResponses ==
    {ApiFailure}
    \cup {ApiSuccess([i \in DOMAIN v |-> NightPeriod(i, v[i])]) : v \in Forecasts(RuleNightChoices)}

\* datetime.now() of the call: 1 November (freeze season, shoulder month) and
\* 1 July (neither)
RuleTimes == {TickAt(11, 1), TickAt(7, 1)}

InitRules == RunIdle /\ StoreIdle /\ RulesIdle

\* the evaluator `rule` is called at instant t and the gateway answers resp
CallOf(rule, t, resp, out) ==
    /\ call' = [rule |-> rule, now |-> t, resp |-> resp, threshold |-> None]
    /\ ret' = out
    /\ UNCHANGED <<runVars, storeVars, raceVars>>

CallRainfall ==
    /\ call.rule = "none"
    /\ \E resp \in RuleRainResponses :
        CallOf("rainfall", TickAt(11, 1), resp, check_rainfall(resp))

CallTempDrop ==
    /\ call.rule = "none"
    /\ \E resp \in RuleDropResponses :
        CallOf("temp_drop", TickAt(11, 1), resp,
               check_temp_drop(MissingFile, TickAt(11, 1), resp))

\* check_temp_drop in a process whose environment sets TEMP_DROP_THRESHOLD_F
CallTempDropConfigured ==
    /\ call.rule = "none"
    /\ \E resp \in RuleDropResponses, threshold \in RuleDropThresholds :
        /\ call' = [rule |-> "temp_drop_configured", now |-> TickAt(11, 1),
                    resp |-> resp, threshold |-> Some(threshold)]
        /\ ret' = check_temp_drop_with(threshold, MissingFile, TickAt(11, 1), resp)
        /\ UNCHANGED <<runVars, storeVars, raceVars>>

CallFirstFreeze ==
    /\ call.rule = "none"
    /\ \E resp \in RuleFreezeResponses, t \in RuleTimes :
        CallOf("first_freeze", t, resp, check_first_freeze(MissingFile, t, resp))

CallHeatWave ==
    /\ call.rule = "none"
    /\ \E resp \in RuleHeatResponses :
        CallOf("heat_wave", TickAt(11, 1), resp,
               check_heat_wave(MissingFile, TickAt(11, 1), resp))

CallSnowChance ==
    /\ call.rule = "none"
    /\ \E resp \in RuleSnowResponses :
        CallOf("snow_chance", TickAt(11, 1), resp,
               check_snow_chance(MissingFile, TickAt(11, 1), resp))

CallShoulderFreeze ==
    /\ call.rule = "none"
    /\ \E resp \in RuleNightResponses, t \in RuleTimes :
        CallOf("shoulder_freeze", t, resp, check_shoulder_freeze(MissingFile, t, resp))

NextRules ==
    \/ CallRainfall
    \/ CallTempDrop
    \/ CallTempDropConfigured
    \/ CallFirstFreeze
    \/ CallHeatWave
    \/ CallSnowChance
    \/ CallShoulderFreeze

SpecRules == InitRules /\ [][NextRules]_vars

TypeOK ==
    /\ pc \in {"idle", "rainfall", "temp_drop", "first_freeze", "heat_wave",
               "snow_chance", "shoulder_freeze", "done", "crashed"}
    /\ file.kind \in {"missing", "malformed", "non_object", "object"}
    /\ DOMAIN file.content \subseteq CooldownKeys
    /\ enabled \in EnabledConfigs
    /\ runs \in 0..MaxRuns

(***************************************************************************)
(* Properties                                                              *)
(***************************************************************************)
\* the cooldown key a rule owns (rainfall owns none)
KeyOf(rule) ==
    CASE rule = "temp_drop" -> "last_temp_drop_alert"
      [] rule = "heat_wave" -> "last_heat_wave_alert"
      [] rule = "snow_chance" -> "last_snow_alert"
      [] rule = "first_freeze" -> "first_freeze_alert_year"
      [] rule = "shoulder_freeze" -> "last_shoulder_freeze_alert"
      [] OTHER -> "none"

WindowDaysOf(rule) ==
    CASE rule = "temp_drop" -> TEMP_DROP_COOLDOWN_DAYS
      [] rule = "heat_wave" -> HEAT_WAVE_COOLDOWN_DAYS
      [] rule = "snow_chance" -> SNOW_COOLDOWN_DAYS

RollingRules == {"temp_drop", "heat_wave", "snow_chance"}

\* the value stored under the key of rule in file f ({} when absent)
Stored(f, rule) == Get(get_cooldown_data(f), KeyOf(rule))

\* the rules the current run goes through
RulesOfRun == IF last.rule = "shoulder_freeze" THEN {"shoulder_freeze"} ELSE FullRunRules

InRun == pc \notin {"idle"} /\ last.rule # "none"

\* C1: with test_mode = true a run (full or shoulder-freeze-only) makes no
\* Notification Gateway call and no Cooldown Store write, whatever fires and
\* whatever the document held: the file stays the one the run started with.
C1_DryRunHasNoEffects ==
    test_mode =>
        /\ sendTotal = 0
        /\ writeTotal = 0
        /\ last.sends = 0
        /\ last.writes = 0
        /\ file = startFile

\* a dry run over a non-empty document has finished with a rule that fired
C1_Witness ==
    /\ test_mode
    /\ pc = "done"
    /\ firedCount >= 1
    /\ DOMAIN get_cooldown_data(file) # {}

\* C2: in normal mode the number of send calls of a run equals the number of
\* rules that fired in it, one call per firing rule and none for a rule that
\* did not fire, whatever the earlier sends returned.
C2_OneSendPerFiredRule ==
    ~test_mode =>
        /\ sendTotal = firedCount
        /\ last.sends = (IF last.outcome.should_notify THEN 1 ELSE 0)

\* all five rules of a full run fired, five sends were made, and at least one
\* of them reported failure
C2_Witness ==
    /\ ~test_mode
    /\ pc = "done"
    /\ last.rule = "snow_chance"
    /\ firedCount = 5
    /\ sendTotal = 5
    /\ writeTotal < 4

\* C3: for temp-drop, heat-wave and snow-chance the rule's key is written in
\* the rule's block iff the rule fired and its send returned success; the
\* written value is the current timestamp, and without a write the key keeps
\* its previous value (or stays absent).
C3_RollingKeyWrittenIffDelivered ==
    (InRun /\ last.rule \in RollingRules) =>
        /\ (last.writes = 1) <=> (last.outcome.should_notify /\ last.sends = 1 /\ last.delivered)
        /\ last.writes = 1 => Stored(file, last.rule) = Some(isoformat(now))
        /\ last.writes = 0 => Stored(file, last.rule) = Stored(last.before, last.rule)

\* the rule fired, the send failed, and the key still holds an earlier value
C3_Witness ==
    /\ InRun
    /\ last.rule \in RollingRules
    /\ last.outcome.should_notify
    /\ last.sends = 1
    /\ ~last.delivered
    /\ Stored(file, last.rule) # None
    /\ Stored(file, last.rule) # Some(isoformat(now))

\* C4: for first-freeze and shoulder-freeze the marker is advanced whenever
\* the rule fired and the notification was attempted, whatever the send
\* returned: it then holds the current year, respectively the current timestamp.
C4_FreezeMarkerAdvancesOnAttempt ==
    (InRun /\ last.rule \in {"first_freeze", "shoulder_freeze"} /\ last.sends = 1) =>
        Stored(file, last.rule) =
            (IF last.rule = "first_freeze" THEN Some(YearOf(now)) ELSE Some(isoformat(now)))

\* C5: a temp-drop, heat-wave or snow-chance evaluation is on cooldown iff its
\* key is present and now < storedTimestamp + windowDays; on cooldown it makes
\* no gateway call and does not fire, otherwise (key absent, or the window has
\* run out, boundary included) it makes its one gateway call.
C5_OnCooldown(rule) ==
    /\ KeyOf(rule) \in DOMAIN get_cooldown_data(last.before)
    /\ now < fromisoformat(get_cooldown_data(last.before)[KeyOf(rule)])
                 + WindowDaysOf(rule) * TicksPerDay

C5_RollingWindowGate ==
    (InRun /\ last.rule \in RollingRules /\ last.ran) =>
        /\ C5_OnCooldown(last.rule) => (last.outcome.calls = 0 /\ ~last.outcome.should_notify)
        /\ ~C5_OnCooldown(last.rule) => last.outcome.calls = 1

\* the key is present, now is exactly the end of the window, and the rule
\* fetched and fired
C5_Witness ==
    /\ InRun
    /\ last.rule \in RollingRules
    /\ last.ran
    /\ Stored(last.before, last.rule) # None
    /\ now = fromisoformat(The(Stored(last.before, last.rule)))
                 + WindowDaysOf(last.rule) * TicksPerDay
    /\ last.outcome.calls = 1
    /\ last.outcome.should_notify

\* a block on cooldown: key present, inside the window, no gateway call
C5_WitnessOnCooldown ==
    /\ InRun
    /\ last.rule \in RollingRules
    /\ last.ran
    /\ C5_OnCooldown(last.rule)
    /\ last.outcome.calls = 0

\* C6: once a run has fired first-freeze and attempted its notification, no
\* later first-freeze evaluation in the same calendar year fires.
C6_FirstFreezeOncePerSeason ==
    [][(pc = "first_freeze" /\ YearOf(now) \in freezeAttempted)
           => ~last'.outcome.should_notify]_vars

\* C7: outside [FIRST_FREEZE_SEASON_START, FIRST_FREEZE_SEASON_END], or with
\* first_freeze_alert_year equal to the current year, check_first_freeze does
\* not fire and makes no gateway call; in season, a missing or different
\* stored year does not suppress the check (the gateway is called).
C7_Gated ==
    \/ ~(MonthOf(now) \in FIRST_FREEZE_SEASON_START..FIRST_FREEZE_SEASON_END)
    \/ Stored(last.before, "first_freeze") = Some(YearOf(now))

C7_FirstFreezeGating ==
    (InRun /\ last.rule = "first_freeze" /\ last.ran) =>
        /\ C7_Gated => (last.outcome.calls = 0 /\ ~last.outcome.should_notify)
        /\ ~C7_Gated => last.outcome.calls = 1

\* a year other than the current one is stored, and the rule fetched and fired
C7_Witness ==
    /\ InRun
    /\ last.rule = "first_freeze"
    /\ last.ran
    /\ Stored(last.before, "first_freeze") # None
    /\ Stored(last.before, "first_freeze") # Some(YearOf(now))
    /\ last.outcome.calls = 1
    /\ last.outcome.should_notify

\* C8: outside the shoulder months, or with last_shoulder_freeze_alert stored
\* on today's calendar date, check_shoulder_freeze does not fire and makes no
\* gateway call; a marker of an earlier date does not suppress the check; and
\* at most one shoulder-freeze notification is delivered per calendar day.
C8_Gated ==
    \/ MonthOf(now) \notin SHOULDER_FREEZE_MONTHS
    \/ /\ Stored(last.before, "shoulder_freeze") # None
       /\ LET s == The(Stored(last.before, "shoulder_freeze"))
          IN  <<s.y, s.m, s.d>> = DateOf(now)

C8_ShoulderFreezeGating ==
    /\ (InRun /\ last.rule = "shoulder_freeze" /\ last.ran) =>
           /\ C8_Gated => (last.outcome.calls = 0 /\ ~last.outcome.should_notify)
           /\ ~C8_Gated => last.outcome.calls = 1
    /\ shoulderDelivered.n <= 1

\* a marker stored less than a day ago on the previous date, and the rule
\* fetched, fired and was delivered again
C8_Witness ==
    /\ InRun
    /\ last.rule = "shoulder_freeze"
    /\ Stored(last.before, "shoulder_freeze") # None
    /\ now - fromisoformat(The(Stored(last.before, "shoulder_freeze"))) < TicksPerDay
    /\ last.outcome.calls = 1
    /\ last.delivered

\* C9: a rule whose flag is false is skipped: its evaluator is not invoked, it
\* makes no gateway call and no send, its key is unchanged throughout the
\* run, and the enabled rules of the run are all evaluated.
C9_DisabledRuleSkipped ==
    InRun =>
        /\ ~IsEnabled(last.rule, enabled) =>
               /\ ~last.ran
               /\ last.outcome.calls = 0
               /\ last.sends = 0
               /\ last.writes = 0
               /\ file = last.before
        /\ \A r \in AllRules \ enabled : Stored(file, r) = Stored(startFile, r)
        /\ evaluated \subseteq enabled
        /\ pc = "done" => evaluated = enabled \cap RulesOfRun

\* a full run with disabled rules has finished, its enabled rules were
\* evaluated and one of them sent and wrote
C9_Witness ==
    /\ pc = "done"
    /\ last.rule = "snow_chance"
    /\ ~last.ran
    /\ evaluated = {"temp_drop", "first_freeze"}
    /\ sendTotal = 2
    /\ writeTotal >= 1

\* C10: a gateway failure inside a rule is absorbed: the rule does not fire
\* and reports zero evidence, the run goes on to every later rule, and a
\* later rule that fires still sends its notification.
C10_GatewayFailureAbsorbed ==
    InRun =>
        /\ last.failed =>
               /\ last.outcome = NoFire(1)
               /\ last.sends = 0
               /\ last.writes = 0
               /\ pc # "done" \/ last.rule \in {"snow_chance", "shoulder_freeze"}
        /\ (fetchFailed /\ pc = "done") => evaluated = enabled \cap RulesOfRun
        /\ (fetchFailed /\ ~test_mode /\ last.outcome.should_notify) => last.sends = 1

\* an earlier fetch of the run failed, and the last rule
\* of the run fetched, fired and sent
C10_Witness ==
    /\ pc = "done"
    /\ fetchFailed
    /\ ~last.failed
    /\ last.rule = "snow_chance"
    /\ last.outcome.should_notify
    /\ last.sends = 1
    /\ Cardinality(evaluated) = 5

\* the Python value the latest get_cooldown_data call returned
LoadedValue == [type |-> loaded.type, data |-> loaded.data]

\* C11: get_cooldown_data returns a mapping whatever the backing file holds:
\* every value a load has returned is a dict.
C11_LoadReturnsMapping == loaded.type # "none" => loaded.type = "dict"

\* C12: whatever the persisted document holds, no exception escapes a rule's
\* cooldown read: a run never ends in an uncaught exception.
C12_NoErrorEscapesCooldownRead ==
    startFile.kind \in {"missing", "malformed", "object"} => pc # "crashed"

\* C13: a load that runs while a save is in progress returns the complete old
\* document or the complete new one.
C13_ConcurrentLoadSeesOldOrNew ==
    (loaded.fresh /\ loaded.during) => LoadedValue \in {saver.old, saver.value}

\* the periods the gateway returned to the evaluator called last
Periods == call.resp.periods

\* the smallest member of a non-empty set of positions
First(S) == CHOOSE i \in S : \A k \in S : i <= k

HasHigh(p) == p.maxTempF # None

ValidDays == SelectSeq(Periods, HasHigh)

HighAt(i) == The(ValidDays[i].maxTempF)

\* the pairs of positions i < j <= i + 3
WindowPairs ==
    {pr \in (DOMAIN ValidDays) \X (DOMAIN ValidDays) : pr[1] < pr[2] /\ pr[2] <= pr[1] + 3}

DropOf(pr) == HighAt(pr[1]) - HighAt(pr[2])

\* the first pair, in the order of the scan, whose drop is m
FirstPairWith(m) ==
    CHOOSE pr \in WindowPairs :
        /\ DropOf(pr) = m
        /\ \A q \in WindowPairs :
               DropOf(q) = m => (pr[1] < q[1] \/ (pr[1] = q[1] /\ pr[2] <= q[2]))

\* "{date_i} ({high_i}) -> {date_j} ({high_j})"
PairDesc(pr) ==
    DateStr(ValidDays[pr[1]]) \o <<HighAt(pr[1])>>
        \o DateStr(ValidDays[pr[2]]) \o <<HighAt(pr[2])>>

FreezingDays ==
    {i \in DOMAIN Periods :
        Periods[i].minTempF # None /\ The(Periods[i].minTempF) <= FREEZE_THRESHOLD_F}

\* C16: in season and not yet alerted this year, the first-freeze rule fires
\* iff some day has a low at or below FREEZE_THRESHOLD_F, and its evidence is
\* the low and date of the first such day; days without a low are skipped.
C16_FirstFreezeDecision ==
    (/\ call.rule = "first_freeze"
     /\ MonthOf(call.now) \in FIRST_FREEZE_SEASON_START..FIRST_FREEZE_SEASON_END
     /\ call.resp.ok) =>
        /\ ret.should_notify = (FreezingDays # {})
        /\ FreezingDays # {} =>
               /\ ret.value = The(Periods[First(FreezingDays)].minTempF)
               /\ ret.detail = DateStr(Periods[First(FreezingDays)])

\* the rule fired on a day that follows a day without a low and precedes a
\* colder day
C16_Witness ==
    /\ call.rule = "first_freeze"
    /\ ret.should_notify
    /\ ret.value = FREEZE_THRESHOLD_F
    /\ \E i \in DOMAIN Periods : i < First(FreezingDays) /\ Periods[i].minTempF = None
    /\ \E k \in FreezingDays : The(Periods[k].minTempF) < ret.value

\* day i has a high at or above HEAT_WAVE_THRESHOLD_F
Hot(i) ==
    Periods[i].maxTempF # None /\ The(Periods[i].maxTempF) >= HEAT_WAVE_THRESHOLD_F

\* HEAT_WAVE_CONSECUTIVE_DAYS hot days in a row start at day a
HotRunFrom(a) ==
    /\ a + HEAT_WAVE_CONSECUTIVE_DAYS - 1 <= Len(Periods)
    /\ \A i \in a..(a + HEAT_WAVE_CONSECUTIVE_DAYS - 1) : Hot(i)

\* C17: the heat-wave rule fires iff the forecast holds a run of at least
\* HEAT_WAVE_CONSECUTIVE_DAYS consecutive days with a high at or above
\* HEAT_WAVE_THRESHOLD_F, a run that lasts to the end of the data included; a
\* cooler day or a day without a high breaks a run.
C17_HeatWaveDecision ==
    (call.rule = "heat_wave" /\ call.resp.ok) =>
        ret.should_notify = (\E a \in DOMAIN Periods : HotRunFrom(a))

\* the rule fired on a run that starts after a day without a high and is
\* still going when the data ends
C17_Witness ==
    /\ call.rule = "heat_wave"
    /\ ret.should_notify
    /\ Len(Periods) > HEAT_WAVE_CONSECUTIVE_DAYS
    /\ Periods[1].maxTempF = None
    /\ \A a \in DOMAIN Periods : HotRunFrom(a) => a = Len(Periods) - HEAT_WAVE_CONSECUTIVE_DAYS + 1

\* the weather texts of the forecasts that contain "snow" in some casing
SnowyTexts == {SnowText, SnowUpper}

IndicatesSnow(p) ==
    \/ p.weather # None /\ The(p.weather) \in SnowyTexts
    \/ p.weatherPrimary # None /\ The(p.weatherPrimary) \in SnowyTexts
    \/ p.snowIN # None /\ The(p.snowIN) > 0

\* the snow days whose probability reaches the threshold
SnowDays ==
    {i \in DOMAIN Periods :
        /\ IndicatesSnow(Periods[i])
        /\ Periods[i].pop # None
        /\ The(Periods[i].pop) >= SNOW_CHANCE_THRESHOLD_PERCENT}

\* C18: a day indicates snow iff its weather text or primary text contains
\* "snow" in any casing or its snowIN is positive; the snow rule fires iff some
\* such day has a probability of at least SNOW_CHANCE_THRESHOLD_PERCENT (a
\* missing probability counts as 0), with the probability and date of the
\* first such day as evidence.
C18_SnowDecision ==
    (call.rule = "snow_chance" /\ call.resp.ok) =>
        /\ ret.should_notify = (SnowDays # {})
        /\ SnowDays # {} =>
               /\ ret.value = The(Periods[First(SnowDays)].pop)
               /\ ret.detail = DateStr(Periods[First(SnowDays)])

\* the rule fired at the threshold itself on a day whose only sign of snow is
\* an upper-case primary text, after a snow day below the threshold and one
\* without a probability
C18_Witness ==
    /\ call.rule = "snow_chance"
    /\ ret.should_notify
    /\ ret.value = SNOW_CHANCE_THRESHOLD_PERCENT
    /\ Periods[First(SnowDays)].weatherPrimary = Some(SnowUpper)
    /\ \E i, k \in 1..(First(SnowDays) - 1) :
           /\ IndicatesSnow(Periods[i]) /\ Periods[i].pop = None
           /\ IndicatesSnow(Periods[k]) /\ Periods[k].pop # None

\* the night periods that carry a low
NightsWithLow ==
    {i \in DOMAIN Periods : Periods[i].isDay = Some(FALSE) /\ Periods[i].minTempF # None}

\* C19: the shoulder-freeze rule is decided by the first night period that
\* carries a low alone: it fires iff that low is below
\* SHOULDER_FREEZE_THRESHOLD_F (strictly), whatever later periods hold, and
\* does not fire when no night period carries a low.
C19_ShoulderDecision ==
    (/\ call.rule = "shoulder_freeze"
     /\ MonthOf(call.now) \in SHOULDER_FREEZE_MONTHS
     /\ call.resp.ok) =>
        /\ ret.should_notify =
               (/\ NightsWithLow # {}
                /\ The(Periods[First(NightsWithLow)].minTempF) < SHOULDER_FREEZE_THRESHOLD_F)
        /\ ret.should_notify => ret.value = The(Periods[First(NightsWithLow)].minTempF)

\* the first night with a low is at the threshold itself, a later night is
\* below it, and the rule did not fire
C19_Witness ==
    /\ call.rule = "shoulder_freeze"
    /\ MonthOf(call.now) \in SHOULDER_FREEZE_MONTHS
    /\ call.resp.ok
    /\ NightsWithLow # {}
    /\ Periods[First(NightsWithLow)].minTempF = Some(SHOULDER_FREEZE_THRESHOLD_F)
    /\ \E k \in NightsWithLow : The(Periods[k].minTempF) < SHOULDER_FREEZE_THRESHOLD_F
    /\ ~ret.should_notify

\* C20: save(d) followed by load() returns the key/value pairs of d; this
\* includes the save of a record that was loaded and left unmodified.  A load
\* made after a save has completed, with no other save begun since, returns
\* the saved value.
C20_RoundTrip ==
    (loaded.fresh /\ ~loaded.during /\ saver.done) => LoadedValue = saver.value

\* a record of two keys or more was loaded, saved unmodified and loaded again
C20_Witness ==
    /\ loaded.fresh /\ ~loaded.during /\ saver.done
    /\ saver.from_load
    /\ loaded.type = "dict"
    /\ Cardinality(DOMAIN loaded.data) >= 2

\* C21: two delivered notifications of the same rolling-window rule (temp-drop,
\* heat-wave, snow-chance) are at least that rule's cooldown window apart.
C21_NoRepeatInsideWindow ==
    \A rule \in RollingRules :
        deliveries[rule].prev # None =>
            The(deliveries[rule].latest) - The(deliveries[rule].prev)
                >= timedelta(WindowDaysOf(rule))

\* a rule delivered a second notification at the very instant its window ended
C21_Witness ==
    \E rule \in RollingRules :
        /\ deliveries[rule].prev # None
        /\ The(deliveries[rule].latest) - The(deliveries[rule].prev)
               = timedelta(WindowDaysOf(rule))
        /\ last.rule = rule /\ last.delivered

\* C22: a cooldown write changes only the key of its own rule: every other
\* key the document held before the write is still there with the same value,
\* and no key the document held when the run started is missing later.
C22_WriteKeepsOtherKeys ==
    LET before == get_cooldown_data(last.before)
        after == get_cooldown_data(file)
    IN  /\ last.writes = 1 =>
               /\ DOMAIN after = DOMAIN before \cup {KeyOf(last.rule)}
               /\ \A k \in DOMAIN before \ {KeyOf(last.rule)} : after[k] = before[k]
        /\ DOMAIN get_cooldown_data(startFile) \subseteq DOMAIN after

\* a rule wrote its key into a document that held the key of another rule
C22_Witness ==
    /\ last.writes = 1
    /\ DOMAIN get_cooldown_data(last.before) \ {KeyOf(last.rule)} # {}
    /\ file # last.before

\* the value invocation p stored under the key of its rule
WrittenBy(p) ==
    IF racers[p].rule = "first_freeze" THEN YearOf(racers[p].at)
    ELSE isoformat(racers[p].at)

\* both invocations have saved, for different rules, and the document lacks
\* what one of them stored
LostUpdate ==
    /\ \A p \in 1..2 : racers[p].pc = "done"
    /\ racers[1].rule # racers[2].rule
    /\ \E p \in 1..2 :
           Get(get_cooldown_data(shared), KeyOf(racers[p].rule)) # Some(WrittenBy(p))

\* C23: a cooldown write is a read-modify-write of the whole document without
\* a lock, so two invocations that overlap can lose one of their two updates;
\* two invocations of which one ends before the other starts never do.
C23_LostUpdateOnlyWhenOverlapping == LostUpdate => overlap

\* both invocations delivered and saved, they overlapped, and the document
\* holds the key of only one of them although it was empty of both before
C23_Witness ==
    /\ LostUpdate
    /\ overlap
    /\ \E p \in 1..2 : KeyOf(racers[p].rule) \notin DOMAIN get_cooldown_data(shared)

\* C24: in one run each rule calls the forecast/observation gateway at most
\* once and the notification gateway at most once; the cooldown file is
\* written at most once per rule that fired and never for a rule that did not
\* fire; the rainfall rule neither reads the cooldown file (a file that cannot
\* be read as a record does not disturb it) nor writes it.
C24_PerRunCallBounds ==
    /\ last.outcome.calls \in {0, 1}
    /\ last.sends \in {0, 1}
    /\ last.writes \in {0, 1}
    /\ last.writes = 1 => last.outcome.should_notify
    /\ ~last.outcome.should_notify => (last.sends = 0 /\ file = last.before)
    /\ last.rule = "rainfall" =>
           (last.writes = 0 /\ file = last.before /\ ~last.outcome.raised)
    /\ sendTotal <= firedCount
    /\ writeTotal <= sendTotal
    /\ firedCount <= Cardinality(evaluated)

\* a full run has ended in which rainfall and one other rule fired: two
\* notifications were sent and the file was written once
C24_Witness ==
    /\ pc = "done"
    /\ last.rule = "snow_chance"
    /\ evaluated = FullRunRules
    /\ firedCount = 2
    /\ sendTotal = 2
    /\ writeTotal = 1
    /\ Cardinality(DOMAIN get_cooldown_data(file))
           = Cardinality(DOMAIN get_cooldown_data(startFile)) + 1

\* the threshold the temp-drop call of the state compared against
ThresholdInEffect ==
    IF call.threshold = None THEN TEMP_DROP_THRESHOLD_F ELSE The(call.threshold)

TempDropCall == call.rule \in {"temp_drop", "temp_drop_configured"}

\* C25: when fewer than 2 forecast days carry a high, check_temp_drop does not
\* fire, whatever the forecast length and whatever TEMP_DROP_THRESHOLD_F is
\* configured to, forecasts of 2 or more periods with at most one high
\* included.
C25_TooFewHighsNeverFires ==
    (TempDropCall /\ Len(ValidDays) < 2) => ~ret.should_notify

\* the pairs of forecast positions i < j <= i + 3 whose days both carry a high
ForecastPairs ==
    {pr \in (DOMAIN Periods) \X (DOMAIN Periods) :
        /\ pr[1] < pr[2] /\ pr[2] <= pr[1] + 3
        /\ HasHigh(Periods[pr[1]]) /\ HasHigh(Periods[pr[2]])}

\* C26: the temp-drop window is measured in positions of the forecast the
\* gateway returned: when the rule fires, the pair it reports lies at most 3
\* forecast positions apart, also when days in between carry no high; a drop
\* between two days further apart never makes the rule fire.
C26_WindowInForecastPositions ==
    (call.rule = "temp_drop" /\ ret.should_notify) =>
        \E pr \in ForecastPairs :
            LET hi == The(Periods[pr[1]].maxTempF)
                lo == The(Periods[pr[2]].maxTempF)
            IN  /\ ret.value = hi - lo
                /\ ret.detail = DateStr(Periods[pr[1]]) \o <<hi>>
                                     \o DateStr(Periods[pr[2]]) \o <<lo>>

\* the first forecast position from which a qualifying run of hot days starts
FirstStreakStart ==
    CHOOSE a \in DOMAIN Periods :
        HotRunFrom(a) /\ \A b \in DOMAIN Periods : HotRunFrom(b) => a <= b

\* the last day of the run of hot days that starts at position a
StreakEnd(a) ==
    CHOOSE b \in a..Len(Periods) :
        /\ \A i \in a..b : Hot(i)
        /\ b = Len(Periods) \/ ~Hot(b + 1)

\* C27: when the heat-wave rule fires, the streak it reports is the first one
\* in forecast order that reaches HEAT_WAVE_CONSECUTIVE_DAYS, taken up to the
\* day where it ends: the list holds those consecutive days, each with a high
\* at or above HEAT_WAVE_THRESHOLD_F, the count is the length of the list, and
\* a later streak is not reported when an earlier one qualifies.
C27_FirstStreakReported ==
    (call.rule = "heat_wave" /\ ret.should_notify) =>
        LET a == FirstStreakStart
            b == StreakEnd(a)
        IN  /\ ret.detail = [i \in 1..(b - a + 1) |->
                                 [date |-> DateStr(Periods[a + i - 1]),
                                  high |-> The(Periods[a + i - 1].maxTempF)]]
            /\ ret.value = Len(ret.detail)
            /\ ret.value >= HEAT_WAVE_CONSECUTIVE_DAYS
            /\ \A i \in DOMAIN ret.detail : ret.detail[i].high >= HEAT_WAVE_THRESHOLD_F

\* the week 95, 96, 97, 90, 98, 99, 98 fired with its first three days
C27_Witness ==
    /\ call.rule = "heat_wave"
    /\ call.resp = ApiSuccess(HighsOf(TwoStreakExample))
    /\ HotRunFrom(1) /\ HotRunFrom(5)
    /\ ret.should_notify
    /\ ret.value = 3
    /\ ret.detail = <<[date |-> <<1>>, high |-> 95], [date |-> <<2>>, high |-> 96],
                      [date |-> <<3>>, high |-> 97]>>

\* every record of the forecast lacks all the fields the rules read
AllAbsent == \A i \in DOMAIN Periods : Periods[i] = BlankPeriod(i)

\* the forecast with a record without fields put in at position k
WithBlankAt(k) ==
    SubSeq(Periods, 1, k - 1) \o <<BlankPeriod(k)>> \o SubSeq(Periods, k, Len(Periods))

\* the evaluator of the state's call, run again on the forecast periods
Reevaluate(periods) ==
    CASE call.rule = "first_freeze" ->
             check_first_freeze(MissingFile, call.now, ApiSuccess(periods))
      [] call.rule = "snow_chance" ->
             check_snow_chance(MissingFile, call.now, ApiSuccess(periods))
      [] call.rule = "shoulder_freeze" ->
             check_shoulder_freeze(MissingFile, call.now, ApiSuccess(periods))

\* C28: a forecast whose records all lack the optional fields never makes
\* temp-drop, first-freeze, heat-wave, snow-chance or shoulder-freeze fire, and
\* putting such a record into a forecast on which first-freeze, snow-chance or
\* shoulder-freeze did not fire does not make the rule fire.
C28_MissingDataNeverFires ==
    /\ (/\ call.rule \in {"temp_drop", "temp_drop_configured", "first_freeze",
                           "heat_wave", "snow_chance", "shoulder_freeze"}
        /\ AllAbsent) => ~ret.should_notify
    /\ (/\ call.rule \in {"first_freeze", "snow_chance", "shoulder_freeze"}
        /\ call.resp.ok
        /\ ~ret.should_notify) =>
           \A k \in 1..(Len(Periods) + 1) : ~Reevaluate(WithBlankAt(k)).should_notify

====
